---- MODULE Spec2Model ----
(***************************************************************************)
(* Model of build_carousel_from_template.py: the command-line entry point  *)
(* main, the template analysis (analyze_all_template_slides) and the page  *)
(* loop of create_carousel_from_template, which picks for every centre     *)
(* index a template pattern and a window of source images and places the   *)
(* images into the pattern's slots.  Spec is the builder run through main  *)
(* or called directly; SpecFaults is the builder on small decks with        *)
(* failing image and overlay placements; SpecWide is the builder on decks  *)
(* of up to MaxWideN images without failures.                              *)
(* SpecE2E is create_carousel_end_to_end.py run repeatedly on one input;   *)
(* SpecRange is parse_slide_range and SpecExtract the slide selection of   *)
(* extract_presentation_definition (pptx_to_definition.py); SpecMorph is   *)
(* add_morph_transitions.py; SpecGrid is create_carousel_presentation of   *)
(* build_carousel.py.                                                      *)
(*                                                                         *)
(* Python indices are 0-based and are kept 0-based in the model            *)
(* (center_idx, template_idx, the members of visible_range); TLA+          *)
(* sequences are 1-based, so At0(s, i) reads s[i] of the Python list.      *)
(***************************************************************************)
EXTENDS Integers, Sequences, FiniteSets, TLC

\* ---------------------------------------------------------------- bounds
\* largest number of source images in the images folder
MaxN == 6
\* largest number of slides in the template definition
MaxK == 4
\* largest number of source images whose file cannot be placed
MaxBad == 1
\* SpecFaults: largest deck, largest template, most failing images and most
\* failing overlay steps
MaxFaultN == 3
MaxFaultK == 2
MaxFaultBad == 2
MaxFaultOverlay == 1
\* SpecWide: largest deck and largest template
MaxWideN == 10
MaxWideK == 5
\* SpecE2E: most runs on one input path, most slides of an input
\* presentation, largest template
MaxRuns == 2
MaxDeck == 3
MaxE2EK == 1
\* SpecRange: most parts of a range string, largest one-digit slide number
\* written in it, largest one-digit slide count
MaxParts == 2
MaxRangeNum == 3
MaxTotal == 3
\* SpecMorph: most slides of a presentation, most runs of the script in a row
MaxSlides == 2
MaxPasses == 2
\* SpecGrid: most source images, largest slides_per_page, most images whose
\* file cannot be placed
MaxGridN == 10
MaxPerPage == 10
MaxGridBad == 1
\* SpecExtract: most slides of the deck, largest max_slides
MaxExtractDeck == 3
MaxExtractMax == 4

\* ---------------------------------------------------------------- helpers
Min(a, b) == IF a <= b THEN a ELSE b

Max(a, b) == IF a >= b THEN a ELSE b

\* s[i] of a Python list
At0(s, i) == s[i + 1]

\* list(range(start, stop))
RangeList(start, stop) == [i \in 1..Max(stop - start, 0) |-> start + i - 1]

\* the members of a sequence
Members(s) == {s[i] : i \in 1..Len(s)}

\* sorted(set) of a set of integers
RECURSIVE SortedList(_)
SortedList(set) ==
    IF set = {} THEN << >>
    ELSE LET least == CHOOSE f \in set : \A g \in set : f <= g
         IN  << least >> \o SortedList(set \ {least})

\* ---------------------------------------------------------------- inputs
\* one shape of a slide of the template definition
Shape(id, type, pic, left) ==
    [id |-> id, type |-> type, is_picture |-> pic, left_inches |-> left]

\* three pictures (two of them at the same left position, none in order) and
\* two edge rectangles given right one first
SlideThree ==
    << Shape(1, "picture", TRUE, 3), Shape(2, "auto_shape", FALSE, 9),
       Shape(3, "picture", TRUE, 1), Shape(4, "auto_shape", FALSE, 0),
       Shape(5, "picture", TRUE, 3) >>

\* no picture at all: a text box and one rectangle
SlideNone ==
    << Shape(1, "text_box", FALSE, 2), Shape(2, "auto_shape", FALSE, 4) >>

\* five pictures out of order and three rectangles
SlideFive ==
    << Shape(1, "picture", TRUE, 5), Shape(2, "auto_shape", FALSE, 0),
       Shape(3, "picture", TRUE, 2), Shape(4, "picture", TRUE, 4),
       Shape(5, "auto_shape", FALSE, 8), Shape(6, "picture", TRUE, 1),
       Shape(7, "auto_shape", FALSE, 6), Shape(8, "picture", TRUE, 3) >>

ExampleSlides == {SlideThree, SlideNone, SlideFive}

\* the template definitions a run may load: 0..MaxK slides
Templates ==
    UNION {{[slides |-> s] : s \in [1..k -> ExampleSlides]} : k \in 0..MaxK}

\* the sorted folder listing of n slide images; image i is the file of the
\* i-th source slide (1-based)
ImageList(n) == [i \in 1..n |-> i]

\* the sets of images whose file add_picture cannot read
BadSets(n) == {b \in SUBSET (1..n) : Cardinality(b) <= MaxBad}

NoTemplate == [slides |-> << >>]

\* the template definitions of lo..hi slides
TemplatesOfSize(lo, hi) ==
    UNION {{[slides |-> s] : s \in [1..k -> ExampleSlides]} : k \in lo..hi}

\* the sets of at most most images of a deck of n whose add_picture raises
FaultBadSets(n, most) == {b \in SUBSET (1..n) : Cardinality(b) <= most}

\* the overlay steps of a deck of n pages that can raise: page, rectangle
\* (0 left, 1 right) and the statement of the try block that raises
OverlaySteps(n) == (0..(n - 1)) \X {0, 1} \X {"add", "style"}

OverlayFaultSets(n, most) ==
    {o \in SUBSET OverlaySteps(n) : Cardinality(o) <= most}

VARIABLES
    via,                \* "main": run as a script, "direct": the function is called
    pc,                 \* position in main / create_carousel_from_template
    template_def,       \* the loaded template definition
    slide_images,       \* the list of source images
    bad_images,         \* images whose placement raises
    template_patterns,  \* local of create_carousel_from_template
    rectangles_sorted,  \* local of create_carousel_from_template
    center_idx,         \* loop variable of the page loop
    pages,              \* prs.slides: the pages added to the output deck
    saved,              \* prs.save(output_path) has run
    raised,             \* the exception create_carousel_from_template raised
    exit_status,        \* return value of main (-1: none yet)
    bad_overlays        \* <<page, rectangle, stage>>: overlay steps that raise

builderVars ==
    << via, pc, template_def, slide_images, bad_images, template_patterns,
       rectangles_sorted, center_idx, pages, saved, raised, exit_status,
       bad_overlays >>

\* create_carousel_end_to_end.py: repeated runs on one input path
VARIABLES
    e_pc,               \* position in main of the end-to-end script
    e_slides,           \* number of slides of this run's input presentation
    e_keep,             \* --keep-temp
    e_template,         \* the template definition file given to this run
    e_folder,           \* the images folder exists
    e_files,            \* slide numbers n with a file slide_n.png in the folder
    e_definition,       \* the temporary definition file exists
    e_output,           \* pages of the deck the last build saved (-1: none)
    e_steps,            \* the steps this run has executed, with their outcome
    e_status,           \* return value of this run's main (-1: none yet)
    e_runs              \* runs started so far

e2eVars ==
    << e_pc, e_slides, e_keep, e_template, e_folder, e_files, e_definition,
       e_output, e_steps, e_status, e_runs >>

\* pptx_to_definition.py: parse_slide_range
VARIABLES
    psr_pc,             \* "call" before, "done" after parse_slide_range
    range_parts,        \* the parts the range string was written from
    range_str,          \* argument range_str, a sequence of characters
    total_slides,       \* argument total_slides
    valid_indices       \* the list returned

psrVars == << psr_pc, range_parts, range_str, total_slides, valid_indices >>

\* add_morph_transitions.py
VARIABLES
    m_pc,               \* position in add_morph_transitions
    m_files,            \* the extracted slide XML files, in sorted order
    m_i,                \* loop index over the slide files (1-based)
    m_warned,           \* slides for which the except branch printed a warning
    m_output,           \* the slides of the repacked output presentation
    m_pass              \* runs of the script so far

morphVars == << m_pc, m_files, m_i, m_warned, m_output, m_pass >>

\* build_carousel.py: create_carousel_presentation
VARIABLES
    g_pc,               \* position in create_carousel_presentation
    g_images,           \* argument slide_images
    g_per_page,         \* argument slides_per_page
    g_titles,           \* argument add_titles
    g_bad,              \* images whose add_picture raises
    g_page_num,         \* loop variable of the page loop
    g_pages,            \* prs.slides: the pages added so far
    g_saved             \* prs.save(output_path) has run

gridVars ==
    << g_pc, g_images, g_per_page, g_titles, g_bad, g_page_num, g_pages,
       g_saved >>

\* pptx_to_definition.py: extract_presentation_definition
VARIABLES
    x_pc,               \* position in extract_presentation_definition
    x_total,            \* len(prs.slides)
    x_max,              \* argument max_slides (given: not None)
    x_range,            \* argument slide_range (given: not None)
    x_export,           \* argument export_images
    x_dir,              \* the image export folder exists
    x_indices,          \* local slide_indices
    x_next,             \* position of the loop in slide_indices (0-based)
    x_slides            \* presentation_def["slides"]

extractVars ==
    << x_pc, x_total, x_max, x_range, x_export, x_dir, x_indices, x_next,
       x_slides >>

\* the variables of the other scripts, which the builder leaves alone
otherVars == << e2eVars, psrVars, morphVars, gridVars, extractVars >>

vars == << builderVars, otherVars >>

\* ---------------------------------------------------------------- template analysis
\* [s for s in shapes if s.get('is_picture', False)]
RECURSIVE Pictures(_)
Pictures(shapes) ==
    IF shapes = << >> THEN << >>
    ELSE IF Head(shapes).is_picture
         THEN << Head(shapes) >> \o Pictures(Tail(shapes))
         ELSE Pictures(Tail(shapes))

\* [s for s in shapes if s['type'] == 'auto_shape']
RECURSIVE AutoShapes(_)
AutoShapes(shapes) ==
    IF shapes = << >> THEN << >>
    ELSE IF Head(shapes).type = "auto_shape"
         THEN << Head(shapes) >> \o AutoShapes(Tail(shapes))
         ELSE AutoShapes(Tail(shapes))

\* insert x behind every element whose key is <= the key of x
RECURSIVE InsertByLeft(_, _)
InsertByLeft(sorted, x) ==
    IF sorted = << >> THEN << x >>
    ELSE IF Head(sorted).left_inches <= x.left_inches
         THEN << Head(sorted) >> \o InsertByLeft(Tail(sorted), x)
         ELSE << x >> \o sorted

\* sorted(shapes, key=lambda p: p['left_inches']): Python's sort is stable
RECURSIVE SortedByLeftFrom(_, _)
SortedByLeftFrom(acc, shapes) ==
    IF shapes = << >> THEN acc
    ELSE SortedByLeftFrom(InsertByLeft(acc, Head(shapes)), Tail(shapes))

\* variant: shapes of equal left position come out in reverse order
SortedByLeft_EqualReversed(shapes) ==
    SortedByLeftFrom(<< >>, [i \in 1..Len(shapes) |-> shapes[Len(shapes) + 1 - i]])

SortedByLeft(shapes) == SortedByLeftFrom(<< >>, shapes)

\* one sorted picture list per template slide
analyze_all_template_slides(tdef) ==
    [k \in 1..Len(tdef.slides) |-> SortedByLeft(Pictures(tdef.slides[k]))]

\* variant: the first-slide lookup is guarded and never raises
FirstSlideMissing_Guarded(tdef) == Len(tdef.slides) < 0

\* template_def['slides'][0] raises IndexError on an empty slide list
FirstSlideMissing(tdef) == Len(tdef.slides) = 0

\* template_def['slides'][0]['shapes'] (read only when the slide exists)
FirstSlideShapes(tdef) ==
    IF Len(tdef.slides) = 0 THEN << >> ELSE tdef.slides[1]

\* the decorative rectangles of the first template slide, by left position
RectanglesSorted(tdef) == SortedByLeft(AutoShapes(FirstSlideShapes(tdef)))

\* ---------------------------------------------------------------- page selection
\* variant: the second-slide arm asks for more than two patterns
Branch_SecondNeedsThree(c, total, K) ==
    IF c = 0 THEN "first"
    ELSE IF c = 1 /\ K > 2 THEN "second"
    ELSE IF c >= 2 /\ c < total - 2 THEN "middle"
    ELSE IF c = total - 2 /\ K > 3 THEN "second_to_last"
    ELSE "last"

\* which arm of the if/elif chain handles centre index c of total pages
\* when the template has K patterns
Branch(c, total, K) ==
    IF c = 0 THEN "first"
    ELSE IF c = 1 /\ K > 1 THEN "second"
    ELSE IF c >= 2 /\ c < total - 2 THEN "middle"
    ELSE IF c = total - 2 /\ K > 3 THEN "second_to_last"
    ELSE "last"

\* variant: the middle arm uses pattern 2 without clamping it to K - 1
TemplateIdx_MiddleUnclamped(c, total, K) ==
    CASE Branch(c, total, K) = "first" -> 0
      [] Branch(c, total, K) = "second" -> 1
      [] Branch(c, total, K) = "middle" -> 2
      [] Branch(c, total, K) = "second_to_last" -> Min(3, K - 1)
      [] Branch(c, total, K) = "last" -> Min(K - 1, 2)

\* variant: the last arm falls back to the first pattern when pattern 2 is
\* missing
TemplateIdx_LastFallsToFirst(c, total, K) ==
    CASE Branch(c, total, K) = "first" -> 0
      [] Branch(c, total, K) = "second" -> 1
      [] Branch(c, total, K) = "middle" -> Min(2, K - 1)
      [] Branch(c, total, K) = "second_to_last" -> Min(3, K - 1)
      [] Branch(c, total, K) = "last" -> IF K - 1 >= 2 THEN 2 ELSE 0

\* variant: the last arm always uses the last pattern
TemplateIdx_LastUsesLastPattern(c, total, K) ==
    CASE Branch(c, total, K) = "first" -> 0
      [] Branch(c, total, K) = "second" -> 1
      [] Branch(c, total, K) = "middle" -> Min(2, K - 1)
      [] Branch(c, total, K) = "second_to_last" -> Min(3, K - 1)
      [] Branch(c, total, K) = "last" -> K - 1

\* variant: the middle arm falls back to the first pattern when pattern 2 is
\* missing
TemplateIdx_MiddleFallsToFirst(c, total, K) ==
    CASE Branch(c, total, K) = "first" -> 0
      [] Branch(c, total, K) = "second" -> 1
      [] Branch(c, total, K) = "middle" -> IF K - 1 >= 2 THEN 2 ELSE 0
      [] Branch(c, total, K) = "second_to_last" -> Min(3, K - 1)
      [] Branch(c, total, K) = "last" -> Min(K - 1, 2)

\* variant: the second-to-last arm uses the last pattern
TemplateIdx_SecondToLastUsesLastPattern(c, total, K) ==
    CASE Branch(c, total, K) = "first" -> 0
      [] Branch(c, total, K) = "second" -> 1
      [] Branch(c, total, K) = "middle" -> Min(2, K - 1)
      [] Branch(c, total, K) = "second_to_last" -> K - 1
      [] Branch(c, total, K) = "last" -> Min(K - 1, 2)

\* template_idx as assigned in the arm taken
TemplateIdx(c, total, K) ==
    CASE Branch(c, total, K) = "first" -> 0
      [] Branch(c, total, K) = "second" -> 1
      [] Branch(c, total, K) = "middle" -> Min(2, K - 1)
      [] Branch(c, total, K) = "second_to_last" -> Min(3, K - 1)
      [] Branch(c, total, K) = "last" -> Min(K - 1, 2)

\* variant: the tail arms start their window at the centre
TailRange_FromCentre(c, total) == [start |-> c, stop |-> total]

\* the window [max(0, c - 2), total) of the two tail arms
TailRange(c, total) == [start |-> Max(0, c - 2), stop |-> total]

\* variant: the last arm stops one image early
VisibleRange_LastStopsEarly(c, total, K) ==
    CASE Branch(c, total, K) = "first" ->
            [start |-> 0, stop |-> Min(3, total)]
      [] Branch(c, total, K) = "second" ->
            [start |-> 0, stop |-> Min(4, total)]
      [] Branch(c, total, K) = "middle" ->
            [start |-> Max(0, c - 2), stop |-> Min(c + 3, total)]
      [] Branch(c, total, K) = "second_to_last" -> TailRange(c, total)
      [] Branch(c, total, K) = "last" ->
            [start |-> Max(0, c - 2), stop |-> total - 1]

\* variant: the first arm does not clip its window to the deck
VisibleRange_FirstUnclipped(c, total, K) ==
    CASE Branch(c, total, K) = "first" ->
            [start |-> 0, stop |-> 3]
      [] Branch(c, total, K) = "second" ->
            [start |-> 0, stop |-> Min(4, total)]
      [] Branch(c, total, K) = "middle" ->
            [start |-> Max(0, c - 2), stop |-> Min(c + 3, total)]
      [] Branch(c, total, K) = "second_to_last" -> TailRange(c, total)
      [] Branch(c, total, K) = "last" -> TailRange(c, total)

\* variant: the middle arm reaches three images to the left
VisibleRange_MiddleTooWide(c, total, K) ==
    CASE Branch(c, total, K) = "first" ->
            [start |-> 0, stop |-> Min(3, total)]
      [] Branch(c, total, K) = "second" ->
            [start |-> 0, stop |-> Min(4, total)]
      [] Branch(c, total, K) = "middle" ->
            [start |-> Max(0, c - 3), stop |-> Min(c + 3, total)]
      [] Branch(c, total, K) = "second_to_last" -> TailRange(c, total)
      [] Branch(c, total, K) = "last" -> TailRange(c, total)

\* visible_range as assigned in the arm taken: a Python range(start, stop)
VisibleRange(c, total, K) ==
    CASE Branch(c, total, K) = "first" ->
            [start |-> 0, stop |-> Min(3, total)]
      [] Branch(c, total, K) = "second" ->
            [start |-> 0, stop |-> Min(4, total)]
      [] Branch(c, total, K) = "middle" ->
            [start |-> Max(0, c - 2), stop |-> Min(c + 3, total)]
      [] Branch(c, total, K) = "second_to_last" -> TailRange(c, total)
      [] Branch(c, total, K) = "last" -> TailRange(c, total)

\* ---------------------------------------------------------------- image placement
NoPlacement == [shapes |-> << >>, skipped |-> {}, warnings |-> {}]

\* a picture added to the page for slot pic_idx
PlacedPicture(img, pic_idx, pic_def) ==
    [kind |-> "picture", image |-> img, slot |-> pic_idx,
     def_id |-> pic_def.id, left_inches |-> pic_def.left_inches,
     finished |-> TRUE]

\* the loop over enumerate(template_pictures), from pic_idx on:
\*   shapes   - the pictures added to the page, in the order added
\*   skipped  - the pic_idx for which the out-of-range guard fired
\*   warnings - the images whose add_picture raised (caught, warning printed)
RECURSIVE PlaceFrom(_, _, _, _, _)
PlaceFrom(pic_idx, template_pictures, visible_slides, images, bad) ==
    IF pic_idx >= Len(template_pictures) THEN NoPlacement
    ELSE IF pic_idx >= Len(visible_slides) THEN NoPlacement
    ELSE LET slide_img_idx == At0(visible_slides, pic_idx)
             rest == PlaceFrom(pic_idx + 1, template_pictures,
                               visible_slides, images, bad)
         IN  IF slide_img_idx < 0 \/ slide_img_idx >= Len(images)
             THEN [rest EXCEPT !.skipped = {pic_idx} \cup @]
             ELSE IF At0(images, slide_img_idx) \in bad
                  THEN [rest EXCEPT !.warnings = {At0(images, slide_img_idx)} \cup @]
                  ELSE [rest EXCEPT !.shapes =
                          << PlacedPicture(At0(images, slide_img_idx), pic_idx,
                                           At0(template_pictures, pic_idx)) >> \o @]

\* variant: the first failing add_picture ends the placement loop
RECURSIVE PlaceFrom_StopAtFailure(_, _, _, _, _)
PlaceFrom_StopAtFailure(pic_idx, template_pictures, visible_slides, images, bad) ==
    IF pic_idx >= Len(template_pictures) THEN NoPlacement
    ELSE IF pic_idx >= Len(visible_slides) THEN NoPlacement
    ELSE LET slide_img_idx == At0(visible_slides, pic_idx)
             rest == PlaceFrom_StopAtFailure(pic_idx + 1, template_pictures,
                                             visible_slides, images, bad)
         IN  IF slide_img_idx < 0 \/ slide_img_idx >= Len(images)
             THEN [rest EXCEPT !.skipped = {pic_idx} \cup @]
             ELSE IF At0(images, slide_img_idx) \in bad
                  THEN [NoPlacement EXCEPT !.warnings = {At0(images, slide_img_idx)}]
                  ELSE [rest EXCEPT !.shapes =
                          << PlacedPicture(At0(images, slide_img_idx), pic_idx,
                                           At0(template_pictures, pic_idx)) >> \o @]

PlaceImages_StopAtFailure(template_pictures, visible_slides, images, bad) ==
    PlaceFrom_StopAtFailure(0, template_pictures, visible_slides, images, bad)

\* variant: slot pic_idx takes image pic_idx instead of visible_slides[pic_idx]
PlaceImages_BySlotIndex(template_pictures, visible_slides, images, bad) ==
    PlaceFrom(0, template_pictures, RangeList(0, Len(visible_slides)),
              images, bad)

PlaceImages(template_pictures, visible_slides, images, bad) ==
    PlaceFrom(0, template_pictures, visible_slides, images, bad)

\* an edge-fade rectangle added to the page from rectangles_sorted[i];
\* finished: the gradient and line settings after add_shape went through
Overlay(rects, i, finished) ==
    [kind |-> "overlay", image |-> 0, slot |-> i,
     def_id |-> At0(rects, i).id, left_inches |-> At0(rects, i).left_inches,
     finished |-> finished]

\* one try block of the overlay code on page c for rectangles_sorted[i]:
\* nothing is added when add_shape raises, the rectangle stays as added when
\* a later statement of the block raises
OverlayAttempt(rects, c, i, badov) ==
    IF << c, i, "add" >> \in badov THEN << >>
    ELSE << Overlay(rects, i, << c, i, "style" >> \notin badov) >>

\* the rectangles whose try block on page c printed a warning
OverlayWarnings(rects, c, badov) ==
    IF Len(rects) >= 2
    THEN {i \in {0, 1} : \E stage \in {"add", "style"} : << c, i, stage >> \in badov}
    ELSE {}

\* variant: both rectangles share one try block, so a failing left
\* rectangle skips the right one
Overlays_OneTryBlock(rects, c, badov) ==
    IF Len(rects) >= 2
    THEN IF \E stage \in {"add", "style"} : << c, 0, stage >> \in badov
         THEN OverlayAttempt(rects, c, 0, badov)
         ELSE OverlayAttempt(rects, c, 0, badov) \o OverlayAttempt(rects, c, 1, badov)
    ELSE << >>

\* the two gradient rectangles, left one first, when the template has them;
\* the right block runs whatever happened in the left one
Overlays(rects, c, badov) ==
    IF Len(rects) >= 2
    THEN OverlayAttempt(rects, c, 0, badov) \o OverlayAttempt(rects, c, 1, badov)
    ELSE << >>

\* variant: the loop bound is one short
TotalPages_OneShort(images) == Len(images) - 1

\* total_pages = len(slide_images)
TotalPages(images) == Len(images)

\* the page built by one iteration of the page loop
BuildPage(c, patterns, rects, images, bad, badov) ==
    LET total == TotalPages(images)
        K == Len(patterns)
        template_idx == TemplateIdx(c, total, K)
        visible_range == VisibleRange(c, total, K)
        visible_slides == RangeList(visible_range.start, visible_range.stop)
        placed == PlaceImages(At0(patterns, template_idx), visible_slides,
                              images, bad)
    IN  [center_idx |-> c,
         template_idx |-> template_idx,
         visible_slides |-> visible_slides,
         shapes |-> placed.shapes \o Overlays(rects, c, badov),
         skipped |-> placed.skipped,
         warnings |-> placed.warnings,
         overlay_warnings |-> OverlayWarnings(rects, c, badov)]

\* the slide already added when template_patterns[template_idx] raises
BlankPage(c, patterns, images) ==
    LET total == TotalPages(images)
        K == Len(patterns)
        visible_range == VisibleRange(c, total, K)
    IN  [center_idx |-> c,
         template_idx |-> TemplateIdx(c, total, K),
         visible_slides |-> RangeList(visible_range.start, visible_range.stop),
         shapes |-> << >>, skipped |-> {}, warnings |-> {},
         overlay_warnings |-> {}]

\* ---------------------------------------------------------------- state machine
\* the builder before a call with the given entry point and position
BuilderAt(entry, position) ==
    /\ via = entry
    /\ pc = position
    /\ template_def = NoTemplate
    /\ slide_images = << >>
    /\ bad_images = {}
    /\ bad_overlays = {}
    /\ template_patterns = << >>
    /\ rectangles_sorted = << >>
    /\ center_idx = 0
    /\ pages = << >>
    /\ saved = FALSE
    /\ raised = "none"
    /\ exit_status = -1

\* the builder is not running
BuilderIdle == BuilderAt("none", "idle")

\* the end-to-end script is not running
E2EIdle ==
    /\ e_pc = "idle"
    /\ e_slides = 0
    /\ e_keep = FALSE
    /\ e_template = NoTemplate
    /\ e_folder = FALSE
    /\ e_files = {}
    /\ e_definition = FALSE
    /\ e_output = -1
    /\ e_steps = << >>
    /\ e_status = -1
    /\ e_runs = 0

\* parse_slide_range is not running
PSRIdle ==
    /\ psr_pc = "idle"
    /\ range_parts = << >>
    /\ range_str = << >>
    /\ total_slides = 0
    /\ valid_indices = << >>

\* add_morph_transitions is not running
MorphIdle ==
    /\ m_pc = "idle"
    /\ m_files = << >>
    /\ m_i = 0
    /\ m_warned = {}
    /\ m_output = << >>
    /\ m_pass = 0

\* an optional argument: not given (None) or given with a value
NotGiven(blank) == [given |-> FALSE, value |-> blank]

Given(value) == [given |-> TRUE, value |-> value]

\* create_carousel_presentation is not running
GridIdle ==
    /\ g_pc = "idle"
    /\ g_images = << >>
    /\ g_per_page = 0
    /\ g_titles = FALSE
    /\ g_bad = {}
    /\ g_page_num = 0
    /\ g_pages = << >>
    /\ g_saved = FALSE

\* extract_presentation_definition is not running
ExtractIdle ==
    /\ x_pc = "idle"
    /\ x_total = 0
    /\ x_max = NotGiven(0)
    /\ x_range = NotGiven(<< >>)
    /\ x_export = FALSE
    /\ x_dir = FALSE
    /\ x_indices = << >>
    /\ x_next = 0
    /\ x_slides = << >>

\* the other scripts are not running
OthersIdle == E2EIdle /\ PSRIdle /\ MorphIdle /\ GridIdle /\ ExtractIdle

Init ==
    /\ \/ BuilderAt("main", "main_validate")
       \/ BuilderAt("direct", "direct_call")
    /\ OthersIdle

\* main: the two path checks
MainValidate ==
    /\ pc = "main_validate"
    /\ \E template_exists \in BOOLEAN, folder_exists \in BOOLEAN :
           IF ~template_exists \/ ~folder_exists
           THEN /\ exit_status' = 1
                /\ pc' = "exit"
           ELSE /\ exit_status' = exit_status
                /\ pc' = "main_load"
    /\ UNCHANGED << via, template_def, slide_images, bad_images,
                    template_patterns, rectangles_sorted, center_idx, pages,
                    saved, raised >>
    /\ UNCHANGED << bad_overlays, otherVars >>

\* main: load_template_definition inside try/except
MainLoad ==
    /\ pc = "main_load"
    /\ \/ /\ exit_status' = 1
          /\ pc' = "exit"
          /\ UNCHANGED template_def
       \/ /\ \E t \in Templates : template_def' = t
          /\ pc' = "main_images"
          /\ UNCHANGED exit_status
    /\ UNCHANGED << via, slide_images, bad_images, template_patterns,
                    rectangles_sorted, center_idx, pages, saved, raised >>
    /\ UNCHANGED << bad_overlays, otherVars >>

\* variant: main does not reject an empty image list
NoImages_NeverEmpty(images) == Len(images) < 0

\* `if not slide_images` of main
NoImages(images) == Len(images) = 0

\* main: get_slide_images and the emptiness check
MainGetImages ==
    /\ pc = "main_images"
    /\ \E n \in 0..MaxN : \E b \in BadSets(n) :
           /\ slide_images' = ImageList(n)
           /\ bad_images' = b
           /\ bad_overlays' = {}
           /\ IF NoImages(ImageList(n))
              THEN /\ exit_status' = 1
                   /\ pc' = "exit"
              ELSE /\ exit_status' = exit_status
                   /\ pc' = "create"
    /\ UNCHANGED << via, template_def, template_patterns, rectangles_sorted,
                    center_idx, pages, saved, raised >>
    /\ UNCHANGED otherVars

\* create_carousel_from_template called by other code with its arguments
DirectCall ==
    /\ pc = "direct_call"
    /\ \E t \in Templates, n \in 0..MaxN : \E b \in BadSets(n) :
           /\ template_def' = t
           /\ slide_images' = ImageList(n)
           /\ bad_images' = b
    /\ bad_overlays' = {}
    /\ pc' = "create"
    /\ UNCHANGED << via, template_patterns, rectangles_sorted, center_idx,
                    pages, saved, raised, exit_status >>
    /\ UNCHANGED otherVars

\* create_carousel_from_template up to the page loop
CreateSetup ==
    /\ pc = "create"
    /\ template_patterns' = analyze_all_template_slides(template_def)
    /\ IF FirstSlideMissing(template_def)
       THEN /\ raised' = "IndexError"
            /\ pc' = "raised"
            /\ UNCHANGED rectangles_sorted
       ELSE /\ rectangles_sorted' = RectanglesSorted(template_def)
            /\ pc' = "loop"
            /\ UNCHANGED raised
    /\ center_idx' = 0
    /\ UNCHANGED << via, template_def, slide_images, bad_images, pages, saved,
                    exit_status >>
    /\ UNCHANGED << bad_overlays, otherVars >>

\* one iteration of `for center_idx in range(total_pages)`
AddPage ==
    /\ pc = "loop"
    /\ center_idx < TotalPages(slide_images)
    /\ IF TemplateIdx(center_idx, TotalPages(slide_images),
                      Len(template_patterns)) \in 0..(Len(template_patterns) - 1)
       THEN /\ pages' = Append(pages, BuildPage(center_idx, template_patterns,
                                  rectangles_sorted, slide_images, bad_images,
                                  bad_overlays))
            /\ center_idx' = center_idx + 1
            /\ UNCHANGED << pc, raised >>
       ELSE /\ pages' = Append(pages, BlankPage(center_idx, template_patterns,
                                                slide_images))
            /\ raised' = "IndexError"
            /\ pc' = "raised"
            /\ UNCHANGED center_idx
    /\ UNCHANGED << via, template_def, slide_images, bad_images,
                    template_patterns, rectangles_sorted, saved, exit_status >>
    /\ UNCHANGED << bad_overlays, otherVars >>

\* prs.save(output_path) after the loop, then return
Save ==
    /\ pc = "loop"
    /\ center_idx >= TotalPages(slide_images)
    /\ saved' = TRUE
    /\ pc' = "returned"
    /\ UNCHANGED << via, template_def, slide_images, bad_images,
                    template_patterns, rectangles_sorted, center_idx, pages,
                    raised, exit_status >>
    /\ UNCHANGED << bad_overlays, otherVars >>

\* main: the try/except around the call and the final return
MainReturn ==
    /\ via = "main"
    /\ pc \in {"returned", "raised"}
    /\ exit_status' = IF pc = "raised" THEN 1 ELSE 0
    /\ pc' = "exit"
    /\ UNCHANGED << via, template_def, slide_images, bad_images,
                    template_patterns, rectangles_sorted, center_idx, pages,
                    saved, raised >>
    /\ UNCHANGED << bad_overlays, otherVars >>

Next ==
    \/ MainValidate
    \/ MainLoad
    \/ MainGetImages
    \/ DirectCall
    \/ CreateSetup
    \/ AddPage
    \/ Save
    \/ MainReturn

Spec == Init /\ [][Next]_vars

\* ---------------------------------------------------------------- builder with failing placements
\* create_carousel_from_template called on a small deck in which image
\* files can be unreadable and overlay statements can raise
FaultsCall ==
    /\ pc = "faults_call"
    /\ \E t \in TemplatesOfSize(0, MaxFaultK), n \in 0..MaxFaultN :
           \E b \in FaultBadSets(n, MaxFaultBad),
              o \in OverlayFaultSets(n, MaxFaultOverlay) :
               /\ template_def' = t
               /\ slide_images' = ImageList(n)
               /\ bad_images' = b
               /\ bad_overlays' = o
    /\ pc' = "create"
    /\ UNCHANGED << via, template_patterns, rectangles_sorted, center_idx,
                    pages, saved, raised, exit_status >>
    /\ UNCHANGED otherVars

InitFaults == BuilderAt("direct", "faults_call") /\ OthersIdle

NextFaults ==
    \/ FaultsCall
    \/ CreateSetup
    \/ AddPage
    \/ Save

SpecFaults == InitFaults /\ [][NextFaults]_vars

\* ---------------------------------------------------------------- builder on long decks
\* create_carousel_from_template called with up to MaxWideN readable images
\* and a template of 1..MaxWideK slides
WideCall ==
    /\ pc = "wide_call"
    /\ \E t \in TemplatesOfSize(1, MaxWideK), n \in 0..MaxWideN :
           /\ template_def' = t
           /\ slide_images' = ImageList(n)
    /\ bad_images' = {}
    /\ bad_overlays' = {}
    /\ pc' = "create"
    /\ UNCHANGED << via, template_patterns, rectangles_sorted, center_idx,
                    pages, saved, raised, exit_status >>
    /\ UNCHANGED otherVars

InitWide == BuilderAt("direct", "wide_call") /\ OthersIdle

NextWide ==
    \/ WideCall
    \/ CreateSetup
    \/ AddPage
    \/ Save

SpecWide == InitWide /\ [][NextWide]_vars

\* ---------------------------------------------------------------- end-to-end script
\* sorted(images_folder.glob("slide_*.png")): the file names carry the slide
\* number zero-padded to three digits, so name order is number order
SortedFiles(files) == SortedList(files)

\* the pages create_carousel_from_template adds for a template with at
\* least one slide
BuiltPages(tdef, images) ==
    [i \in 1..TotalPages(images) |->
        BuildPage(i - 1, analyze_all_template_slides(tdef),
                  RectanglesSorted(tdef), images, {}, {})]

\* exit status of build_carousel_from_template.py run on a loadable template
\* and an existing images folder
BuildStatus(tdef, images) ==
    IF NoImages(images) THEN 1
    ELSE IF FirstSlideMissing(tdef) THEN 1
    ELSE 0

\* a step of the run and whether it went through
Step(name, ok) == [step |-> name, ok |-> ok]

\* variant: the temporary files are removed whatever --keep-temp says
ShouldCleanup_Always(keep) == keep \/ ~keep

\* `if not args.keep_temp`
ShouldCleanup(keep) == ~keep

\* argument parsing and the two path checks of main; the files of earlier
\* runs on the same input path are still on disk
E2EStart ==
    /\ e_pc \in {"idle", "exit"}
    /\ e_runs < MaxRuns
    /\ e_runs' = e_runs + 1
    /\ \E t \in TemplatesOfSize(0, MaxE2EK), n \in 0..MaxDeck, keep \in BOOLEAN :
           /\ e_template' = t
           /\ e_slides' = n
           /\ e_keep' = keep
    /\ e_steps' = << >>
    /\ \E input_exists \in BOOLEAN, template_exists \in BOOLEAN :
           IF ~input_exists \/ ~template_exists
           THEN e_status' = 1 /\ e_pc' = "exit"
           ELSE e_status' = -1 /\ e_pc' = "step1"
    /\ UNCHANGED << e_folder, e_files, e_definition, e_output >>
    /\ UNCHANGED << builderVars, psrVars, morphVars, gridVars, extractVars >>

\* step 1: pptx_to_definition.py --export-images as a subprocess.  The
\* script can die before the images folder is made (the presentation does
\* not open) or after it (the automation module is missing); otherwise each
\* slide is exported or skipped with a warning and the definition is written
E2EExport ==
    /\ e_pc = "step1"
    /\ \/ /\ e_steps' = Append(e_steps, Step("export", FALSE))
          /\ e_status' = 1
          /\ e_pc' = "exit"
          /\ \/ UNCHANGED e_folder
             \/ e_slides >= 1 /\ e_folder' = TRUE
          /\ UNCHANGED << e_files, e_definition >>
       \/ /\ \E exported \in SUBSET (1..e_slides) :
                 e_files' = e_files \cup exported
          /\ e_folder' = TRUE
          /\ e_definition' = TRUE
          /\ e_steps' = Append(e_steps, Step("export", TRUE))
          /\ e_pc' = "step2"
          /\ UNCHANGED e_status
    /\ UNCHANGED << e_slides, e_keep, e_template, e_output, e_runs >>
    /\ UNCHANGED << builderVars, psrVars, morphVars, gridVars, extractVars >>

\* step 2: build_carousel_from_template.py as a subprocess on the images
\* folder; the template file may fail to load
E2EBuild ==
    /\ e_pc = "step2"
    /\ \E load_ok \in BOOLEAN :
           LET images == SortedFiles(e_files)
               ok == load_ok /\ BuildStatus(e_template, images) = 0
           IN  /\ e_steps' = Append(e_steps, Step("build", ok))
               /\ IF ok
                  THEN /\ e_output' = Len(BuiltPages(e_template, images))
                       /\ e_pc' = "step3"
                       /\ UNCHANGED e_status
                  ELSE /\ e_status' = 1
                       /\ e_pc' = "exit"
                       /\ UNCHANGED e_output
    /\ UNCHANGED << e_slides, e_keep, e_template, e_folder, e_files,
                    e_definition, e_runs >>
    /\ UNCHANGED << builderVars, psrVars, morphVars, gridVars, extractVars >>

\* step 3 and the final return: unless --keep-temp, unlink the definition
\* and remove the images folder inside one try block; an exception in
\* either only prints a warning
E2ECleanup ==
    /\ e_pc = "step3"
    /\ IF ShouldCleanup(e_keep)
       THEN \/ /\ e_definition' = FALSE
               /\ e_folder' = FALSE
               /\ e_files' = {}
               /\ e_steps' = Append(e_steps, Step("cleanup", TRUE))
            \/ /\ e_definition
               /\ UNCHANGED << e_definition, e_folder, e_files >>
               /\ e_steps' = Append(e_steps, Step("cleanup", FALSE))
            \/ /\ e_folder
               /\ e_definition' = FALSE
               /\ \E left \in SUBSET e_files : e_files' = left
               /\ UNCHANGED e_folder
               /\ e_steps' = Append(e_steps, Step("cleanup", FALSE))
       ELSE UNCHANGED << e_definition, e_folder, e_files, e_steps >>
    /\ e_status' = 0
    /\ e_pc' = "exit"
    /\ UNCHANGED << e_slides, e_keep, e_template, e_output, e_runs >>
    /\ UNCHANGED << builderVars, psrVars, morphVars, gridVars, extractVars >>

InitE2E == BuilderIdle /\ OthersIdle

NextE2E ==
    \/ E2EStart
    \/ E2EExport
    \/ E2EBuild
    \/ E2ECleanup

SpecE2E == InitE2E /\ [][NextE2E]_vars

\* ---------------------------------------------------------------- parse_slide_range
\* a string is a sequence of one-character strings
DigitChars == << "0", "1", "2", "3", "4", "5", "6", "7", "8", "9" >>

IsDigit(ch) == \E d \in 1..10 : DigitChars[d] = ch

DigitValue(ch) == (CHOOSE d \in 1..10 : DigitChars[d] = ch) - 1

\* str(n) for n >= 0
RECURSIVE ToDigits(_)
ToDigits(n) ==
    IF n < 10 THEN << DigitChars[n + 1] >>
    ELSE ToDigits(n \div 10) \o << DigitChars[(n % 10) + 1] >>

\* a part of a range as the caller writes it
Part(form, a, b) == [form |-> form, a |-> a, b |-> b]

WritePart(part) ==
    CASE part.form = "dash" -> ToDigits(part.a) \o << "-" >> \o ToDigits(part.b)
      [] part.form = "dots" -> ToDigits(part.a) \o << ".", "." >> \o ToDigits(part.b)
      [] part.form = "from" -> ToDigits(part.a) \o << ".", "." >>
      [] part.form = "upto" -> << ".", "." >> \o ToDigits(part.b)
      [] part.form = "single" -> ToDigits(part.a)

\* the parts joined by commas
RECURSIVE WriteRange(_)
WriteRange(parts) ==
    IF parts = << >> THEN << >>
    ELSE IF Len(parts) = 1 THEN WritePart(parts[1])
    ELSE WritePart(parts[1]) \o << "," >> \o WriteRange(Tail(parts))

\* the slide numbers written in range strings: one digit, and one of two
RangeNums == (0..MaxRangeNum) \cup {12}

\* the slide counts: one digit, and one of two
Totals == (0..MaxTotal) \cup {12}

RangeParts ==
    {Part(f, a, b) : f \in {"dash", "dots"}, a \in RangeNums, b \in RangeNums}
    \cup {Part("from", a, 0) : a \in RangeNums}
    \cup {Part("upto", 0, b) : b \in RangeNums}
    \cup {Part("single", a, 0) : a \in RangeNums}

RangePartLists == UNION {[1..k -> RangeParts] : k \in 0..MaxParts}

\* position of the first ch in str, 0 when there is none
FindChar(str, ch) ==
    IF \E i \in 1..Len(str) : str[i] = ch
    THEN CHOOSE i \in 1..Len(str) :
             str[i] = ch /\ \A j \in 1..(i - 1) : str[j] # ch
    ELSE 0

\* position of the first ".." in str, 0 when there is none
FindDots(str) ==
    IF \E i \in 1..(Len(str) - 1) : str[i] = "." /\ str[i + 1] = "."
    THEN CHOOSE i \in 1..(Len(str) - 1) :
             /\ str[i] = "." /\ str[i + 1] = "."
             /\ \A j \in 1..(i - 1) : ~(str[j] = "." /\ str[j + 1] = ".")
    ELSE 0

\* str.split(',')
RECURSIVE SplitComma(_)
SplitComma(str) ==
    IF FindChar(str, ",") = 0 THEN << str >>
    ELSE << SubSeq(str, 1, FindChar(str, ",") - 1) >>
         \o SplitComma(SubSeq(str, FindChar(str, ",") + 1, Len(str)))

\* str.strip()
RECURSIVE Strip(_)
Strip(str) ==
    IF str = << >> THEN str
    ELSE IF Head(str) = " " THEN Strip(Tail(str))
    ELSE IF str[Len(str)] = " " THEN Strip(SubSeq(str, 1, Len(str) - 1))
    ELSE str

\* value of a string of digits
RECURSIVE DigitsValue(_)
DigitsValue(str) ==
    IF str = << >> THEN 0
    ELSE 10 * DigitsValue(SubSeq(str, 1, Len(str) - 1)) + DigitValue(str[Len(str)])

AllDigits(str) == str # << >> /\ \A i \in 1..Len(str) : IsDigit(str[i])

\* int(str) accepts digits with an optional sign, else raises ValueError
IsInt(str) ==
    \/ AllDigits(str)
    \/ str # << >> /\ Head(str) \in {"-", "+"} /\ AllDigits(Tail(str))

IntOf(str) ==
    IF Head(str) = "-" THEN 0 - DigitsValue(Tail(str))
    ELSE IF Head(str) = "+" THEN DigitsValue(Tail(str))
    ELSE DigitsValue(str)

\* variant: the end of a range is left out
RangeSet_EndExcluded(start, end) == start..(end - 1)

\* set(range(start, end + 1))
RangeSet(start, end) == start..end

\* what one part adds to slide_indices, or that int() raised
PartIndices(part, total) ==
    IF FindDots(part) # 0
    THEN LET start_str == SubSeq(part, 1, FindDots(part) - 1)
             end_str == SubSeq(part, FindDots(part) + 2, Len(part))
         IN  IF (start_str # << >> /\ ~IsInt(start_str))
                \/ (end_str # << >> /\ ~IsInt(end_str))
             THEN [raised |-> TRUE, indices |-> {}]
             ELSE [raised |-> FALSE,
                   indices |-> RangeSet(
                       IF start_str # << >> THEN IntOf(start_str) ELSE 1,
                       IF end_str # << >> THEN IntOf(end_str) ELSE total)]
    ELSE IF FindChar(part, "-") # 0
    THEN LET start_str == SubSeq(part, 1, FindChar(part, "-") - 1)
             end_str == SubSeq(part, FindChar(part, "-") + 1, Len(part))
         IN  IF ~IsInt(start_str) \/ ~IsInt(end_str)
             THEN [raised |-> TRUE, indices |-> {}]
             ELSE [raised |-> FALSE,
                   indices |-> RangeSet(IntOf(start_str), IntOf(end_str))]
    ELSE IF ~IsInt(part)
         THEN [raised |-> TRUE, indices |-> {}]
         ELSE [raised |-> FALSE, indices |-> {IntOf(part)}]

\* the list returned, or that a ValueError left the function
parse_slide_range(str, total) ==
    IF str = << >>
    THEN [raised |-> FALSE, value |-> RangeList(1, total + 1)]
    ELSE LET split == SplitComma(str)
             parts == [i \in 1..Len(split) |-> Strip(split[i])]
             added == [i \in 1..Len(parts) |-> PartIndices(parts[i], total)]
             slide_indices == UNION {added[i].indices : i \in 1..Len(parts)}
         IN  IF \E i \in 1..Len(parts) : added[i].raised
             THEN [raised |-> TRUE, value |-> << >>]
             ELSE [raised |-> FALSE,
                   value |-> SelectSeq(SortedList(slide_indices),
                                       LAMBDA i : 1 <= i /\ i <= total)]

\* a call of parse_slide_range with a written range and a slide count
InitRange ==
    /\ BuilderIdle
    /\ E2EIdle
    /\ MorphIdle
    /\ GridIdle
    /\ ExtractIdle
    /\ psr_pc = "call"
    /\ range_parts \in RangePartLists
    /\ range_str = WriteRange(range_parts)
    /\ total_slides \in Totals
    /\ valid_indices = << >>

ParseCall ==
    /\ psr_pc = "call"
    /\ LET result == parse_slide_range(range_str, total_slides)
       IN  /\ valid_indices' = result.value
           /\ psr_pc' = IF result.raised THEN "raised" ELSE "done"
    /\ UNCHANGED << range_parts, range_str, total_slides >>
    /\ UNCHANGED << builderVars, e2eVars, morphVars, gridVars, extractVars >>

NextRange == ParseCall

SpecRange == InitRange /\ [][NextRange]_vars

\* ---------------------------------------------------------------- add_morph_transitions
\* A slide file is the sequence of the children of its p:sld root:
\*   "cSld", "clrMapOvr", "timing"  the elements of those names
\*   "transition"  a p:transition child of the root
\*   "alt_morph"   mc:AlternateContent holding the morph choice and the fade
\*                 fallback, as lines 65-84 build it
\*   "alt_other"   mc:AlternateContent holding another transition in its
\*                 choice and its fallback
TransitionKinds == {"transition", "alt_morph", "alt_other"}

\* root children in schema order: cSld, clrMapOvr?, transition?, timing?
SlideFile(clr, trans, timing) ==
    << "cSld" >>
    \o (IF clr THEN << "clrMapOvr" >> ELSE << >>)
    \o (IF trans = "none" THEN << >> ELSE << trans >>)
    \o (IF timing THEN << "timing" >> ELSE << >>)

SlideFiles ==
    {SlideFile(clr, trans, timing) :
        clr \in BOOLEAN, trans \in TransitionKinds \cup {"none"},
        timing \in BOOLEAN}

Presentations == UNION {[1..n -> SlideFiles] : n \in 0..MaxSlides}

\* is a p:transition found by './/p:transition' below this child a child of
\* the root itself
NestedTransition(child) == child \in {"alt_morph", "alt_other"}

\* root.remove(trans) raises ValueError for an element that is not a child
\* of root
RemoveRaises(children) ==
    \E k \in 1..Len(children) : NestedTransition(children[k])

\* the root children after the removals that do not raise
WithoutTransitions(children) ==
    SelectSeq(children, LAMBDA child : child # "transition")

\* root.insert(clr_map_idx + 1, alt_content) when clrMapOvr is found
InsertMorph(children) ==
    LET clr_map_idx == FindChar(children, "clrMapOvr")
    IN  IF clr_map_idx # 0
        THEN SubSeq(children, 1, clr_map_idx) \o << "alt_morph" >>
             \o SubSeq(children, clr_map_idx + 1, Len(children))
        ELSE children

\* the slide file after the body of the loop: written back, or left as it
\* was when the body raised
ProcessSlide(children) ==
    IF RemoveRaises(children)
    THEN [raised |-> TRUE, file |-> children]
    ELSE [raised |-> FALSE, file |-> InsertMorph(WithoutTransitions(children))]

\* a run of the script on a presentation; m_output is the presentation file
\* the run reads and, at the end, the one it has written
InitMorph ==
    /\ BuilderIdle
    /\ E2EIdle
    /\ PSRIdle
    /\ GridIdle
    /\ ExtractIdle
    /\ m_pc = "call"
    /\ m_files = << >>
    /\ m_i = 0
    /\ m_warned = {}
    /\ m_output \in Presentations
    /\ m_pass = 0

\* extractall and the sorted slide files
MorphExtract ==
    /\ m_pc = "call"
    /\ m_files' = m_output
    /\ m_i' = 0
    /\ m_warned' = {}
    /\ m_pass' = m_pass + 1
    /\ m_pc' = "slides"
    /\ UNCHANGED m_output
    /\ UNCHANGED << builderVars, e2eVars, psrVars, gridVars, extractVars >>

\* one iteration of the loop over the slide files
MorphSlide ==
    /\ m_pc = "slides"
    /\ m_i < Len(m_files)
    /\ LET result == ProcessSlide(m_files[m_i + 1])
       IN  /\ m_files' = [m_files EXCEPT ![m_i + 1] = result.file]
           /\ m_warned' = IF result.raised THEN m_warned \cup {m_i + 1}
                          ELSE m_warned
    /\ m_i' = m_i + 1
    /\ UNCHANGED << m_pc, m_output, m_pass >>
    /\ UNCHANGED << builderVars, e2eVars, psrVars, gridVars, extractVars >>

\* the extracted files are packed into the output file
MorphRepack ==
    /\ m_pc = "slides"
    /\ m_i = Len(m_files)
    /\ m_output' = m_files
    /\ m_pc' = "done"
    /\ UNCHANGED << m_files, m_i, m_warned, m_pass >>
    /\ UNCHANGED << builderVars, e2eVars, psrVars, gridVars, extractVars >>

\* the script is applied to its own output
MorphAgain ==
    /\ m_pc = "done"
    /\ m_pass < MaxPasses
    /\ m_pc' = "call"
    /\ UNCHANGED << m_files, m_i, m_warned, m_output, m_pass >>
    /\ UNCHANGED << builderVars, e2eVars, psrVars, gridVars, extractVars >>

NextMorph == MorphExtract \/ MorphSlide \/ MorphRepack \/ MorphAgain

SpecMorph == InitMorph /\ [][NextMorph]_vars

\* ---------------------------------------------------------------- build_carousel.py
\* variant: the page count is rounded down
CarouselPages_RoundedDown(total, per_page) == total \div per_page

\* carousel_pages = (total_slides + slides_per_page - 1) // slides_per_page
CarouselPages(total, per_page) == (total + per_page - 1) \div per_page

\* slide_images[start:end] for 0 <= start
Slice(images, start, end) == SubSeq(images, start + 1, Min(end, Len(images)))

\* cols, rows as the if/elif chain on num_slides assigns them
Grid(num_slides) ==
    IF num_slides <= 2 THEN [cols |-> num_slides, rows |-> 1]
    ELSE IF num_slides <= 4 THEN [cols |-> 2, rows |-> 2]
    ELSE IF num_slides <= 6 THEN [cols |-> 3, rows |-> 2]
    ELSE [cols |-> 3, rows |-> 3]

\* the picture and label added for enumerate index idx of the page
Thumbnail(img_path, idx, cols, page_start_idx) ==
    [image |-> img_path, idx |-> idx,
     row |-> idx \div cols, col |-> idx % cols,
     label |-> page_start_idx + idx + 1]

\* the title "Slides start_idx - end_idx" of a page, << >> without titles
PageTitle(page_num, per_page, total, add_titles) ==
    IF add_titles
    THEN << page_num * per_page + 1,
            Min(page_num * per_page + 1 + per_page - 1, total) >>
    ELSE << >>

\* the page built by one iteration of `for page_num in range(carousel_pages)`
GridPage(page_num, images, per_page, add_titles, bad) ==
    LET total == Len(images)
        page_start_idx == page_num * per_page
        page_end_idx == Min(page_start_idx + per_page, total)
        page_slide_images == Slice(images, page_start_idx, page_end_idx)
        num_slides == Len(page_slide_images)
        grid == Grid(num_slides)
        tried == [i \in 1..num_slides |->
                     Thumbnail(page_slide_images[i], i - 1, grid.cols,
                               page_start_idx)]
    IN  [page_num |-> page_num,
         title |-> PageTitle(page_num, per_page, total, add_titles),
         page_slide_images |-> page_slide_images,
         cols |-> grid.cols,
         rows |-> grid.rows,
         thumbnails |-> SelectSeq(tried, LAMBDA t : t.image \notin bad),
         warnings |-> Members(page_slide_images) \cap bad]

\* create_carousel_presentation called with a list of n images, of which
\* some cannot be placed, and slides_per_page >= 1
GridCall ==
    /\ g_pc = "call"
    /\ \E n \in 0..MaxGridN, per_page \in 1..MaxPerPage, titles \in BOOLEAN :
           \E b \in FaultBadSets(n, MaxGridBad) :
               /\ g_images' = ImageList(n)
               /\ g_per_page' = per_page
               /\ g_titles' = titles
               /\ g_bad' = b
    /\ g_page_num' = 0
    /\ g_pc' = "loop"
    /\ UNCHANGED << g_pages, g_saved >>
    /\ UNCHANGED << builderVars, e2eVars, psrVars, morphVars, extractVars >>

GridAddPage ==
    /\ g_pc = "loop"
    /\ g_page_num < CarouselPages(Len(g_images), g_per_page)
    /\ g_pages' = Append(g_pages, GridPage(g_page_num, g_images, g_per_page,
                                           g_titles, g_bad))
    /\ g_page_num' = g_page_num + 1
    /\ UNCHANGED << g_pc, g_images, g_per_page, g_titles, g_bad, g_saved >>
    /\ UNCHANGED << builderVars, e2eVars, psrVars, morphVars, extractVars >>

GridSave ==
    /\ g_pc = "loop"
    /\ g_page_num >= CarouselPages(Len(g_images), g_per_page)
    /\ g_saved' = TRUE
    /\ g_pc' = "returned"
    /\ UNCHANGED << g_images, g_per_page, g_titles, g_bad, g_page_num, g_pages >>
    /\ UNCHANGED << builderVars, e2eVars, psrVars, morphVars, extractVars >>

InitGrid ==
    /\ BuilderIdle
    /\ E2EIdle
    /\ PSRIdle
    /\ MorphIdle
    /\ ExtractIdle
    /\ g_pc = "call"
    /\ g_images = << >>
    /\ g_per_page = 0
    /\ g_titles = FALSE
    /\ g_bad = {}
    /\ g_page_num = 0
    /\ g_pages = << >>
    /\ g_saved = FALSE

NextGrid == GridCall \/ GridAddPage \/ GridSave

SpecGrid == InitGrid /\ [][NextGrid]_vars

\* ---------------------------------------------------------------- extract_presentation_definition
\* Python truth value of an optional integer: None and 0 are false
TruthyInt(opt) == opt.given /\ opt.value # 0

\* Python truth value of an optional string: None and "" are false
TruthyStr(opt) == opt.given /\ opt.value # << >>

\* the parts the slide ranges of the calls are written from
ExtractParts ==
    {Part("single", 2, 0), Part("from", 2, 0), Part("upto", 0, 1),
     Part("dash", 2, 12)}

\* the slide_range arguments: None, the empty string, a one-part range
ExtractRanges ==
    {NotGiven(<< >>), Given(<< >>)}
    \cup {Given(WriteRange(<< p >>)) : p \in ExtractParts}

\* the max_slides arguments: None or an integer >= 0
ExtractMaxima == {NotGiven(0)} \cup {Given(m) : m \in 0..MaxExtractMax}

\* slide_indices as the if/elif/else chain assigns it, or that
\* parse_slide_range raised
SlideIndices(slide_range, max_slides, total) ==
    IF TruthyStr(slide_range)
    THEN parse_slide_range(slide_range.value, total)
    ELSE IF TruthyInt(max_slides)
    THEN [raised |-> FALSE,
          value |-> RangeList(1, Min(max_slides.value + 1, total + 1))]
    ELSE [raised |-> FALSE, value |-> RangeList(1, total + 1)]

\* a call with a deck of x_total slides and its optional arguments
ExtractCall ==
    /\ x_pc = "call"
    /\ \E total \in 0..MaxExtractDeck, m \in ExtractMaxima,
          r \in ExtractRanges, export \in BOOLEAN :
           /\ x_total' = total
           /\ x_max' = m
           /\ x_range' = r
           /\ x_export' = export
           /\ x_dir' = (x_dir \/ export)
    /\ x_pc' = "select"
    /\ UNCHANGED << x_indices, x_next, x_slides >>
    /\ UNCHANGED << builderVars, e2eVars, psrVars, morphVars, gridVars >>

\* the choice of the slides to process
ExtractSelect ==
    /\ x_pc = "select"
    /\ LET chosen == SlideIndices(x_range, x_max, x_total)
       IN  /\ x_indices' = chosen.value
           /\ x_pc' = IF chosen.raised THEN "raised" ELSE "loop"
    /\ x_next' = 0
    /\ UNCHANGED << x_total, x_max, x_range, x_export, x_dir, x_slides >>
    /\ UNCHANGED << builderVars, e2eVars, psrVars, morphVars, gridVars >>

\* one iteration of `for idx in slide_indices`; with export_images the
\* slide image is exported, or export_slide_as_image returns None after its
\* warning, or its import of win32com raises on the first slide
ExtractSlide ==
    /\ x_pc = "loop"
    /\ x_next < Len(x_indices)
    /\ \E outcome \in {"file", "none", "ImportError"} :
           /\ outcome = "file" => x_export
           /\ outcome = "ImportError" => x_export /\ x_next = 0
           /\ IF outcome = "ImportError"
              THEN /\ x_pc' = "raised"
                   /\ UNCHANGED << x_next, x_slides >>
              ELSE /\ x_slides' = Append(x_slides,
                           [index |-> At0(x_indices, x_next),
                            slide_image |-> (outcome = "file")])
                   /\ x_next' = x_next + 1
                   /\ UNCHANGED x_pc
    /\ UNCHANGED << x_total, x_max, x_range, x_export, x_dir, x_indices >>
    /\ UNCHANGED << builderVars, e2eVars, psrVars, morphVars, gridVars >>

ExtractReturn ==
    /\ x_pc = "loop"
    /\ x_next >= Len(x_indices)
    /\ x_pc' = "returned"
    /\ UNCHANGED << x_total, x_max, x_range, x_export, x_dir, x_indices,
                    x_next, x_slides >>
    /\ UNCHANGED << builderVars, e2eVars, psrVars, morphVars, gridVars >>

InitExtract ==
    /\ BuilderIdle
    /\ E2EIdle
    /\ PSRIdle
    /\ MorphIdle
    /\ GridIdle
    /\ x_pc = "call"
    /\ x_total = 0
    /\ x_max = NotGiven(0)
    /\ x_range = NotGiven(<< >>)
    /\ x_export = FALSE
    /\ x_dir = FALSE
    /\ x_indices = << >>
    /\ x_next = 0
    /\ x_slides = << >>

NextExtract == ExtractCall \/ ExtractSelect \/ ExtractSlide \/ ExtractReturn

SpecExtract == InitExtract /\ [][NextExtract]_vars

\* ---------------------------------------------------------------- properties
\* N: the number of source images, K: the number of template patterns
NumImages == Len(slide_images)

NumPatterns == Len(template_def.slides)

PageIndices == 1..Len(pages)

IsPicture(shape) == shape.kind = "picture"

\* the pictures placed on a page, in the order they were added
PlacedOn(page) == SelectSeq(page.shapes, IsPicture)

\* the slots of the pattern a page uses
SlotsOf(page) == At0(template_patterns, page.template_idx)

\* C1: with N >= 1 images and K >= 1 patterns the build raises nothing, the
\* page at output position c centres source image c, the loop has added
\* exactly center_idx pages so far, and once it has returned the deck has
\* exactly N pages and is saved.
C1_OnePagePerImageInOrder ==
    (NumImages >= 1 /\ NumPatterns >= 1) =>
        /\ raised = "none"
        /\ \A i \in PageIndices : pages[i].center_idx = i - 1
        /\ Len(pages) <= NumImages
        /\ (pc = "loop" => Len(pages) = center_idx)
        /\ (pc \in {"returned", "exit"} => saved /\ Len(pages) = NumImages)

C1_Witness ==
    /\ pc = "returned"
    /\ NumImages >= 3
    /\ NumPatterns >= 1
    /\ Len(pages) = NumImages
    /\ pages[3].center_idx = 2

\* C2: with K >= 1 patterns every page's template index is in 0..K-1 and
\* indexing the template set never raises.
C2_TemplateIndexInRange ==
    NumPatterns >= 1 =>
        /\ raised = "none"
        /\ \A i \in PageIndices :
               /\ 0 <= pages[i].template_idx
               /\ pages[i].template_idx < NumPatterns

C2_Witness ==
    \E i \in PageIndices :
        /\ NumPatterns = 2
        /\ pages[i].center_idx >= 2
        /\ pages[i].center_idx < NumImages - 2
        /\ pages[i].template_idx = 1

\* C3: every page's visible range is non-empty and contains the page's
\* centre index.
C3_CenterInVisibleRange ==
    \A i \in PageIndices :
        /\ pages[i].visible_slides # << >>
        /\ pages[i].center_idx \in Members(pages[i].visible_slides)

C3_Witness ==
    \E i \in PageIndices :
        /\ NumPatterns = 1
        /\ NumImages >= 4
        /\ pages[i].center_idx = 1
        /\ 1 \in Members(pages[i].visible_slides)

\* C4: every page's visible range is a run of consecutive increasing
\* integers within 0..N-1, and the out-of-range guard of the placement loop
\* has not fired on any page.
C4_VisibleRangeContiguousInDeck ==
    \A i \in PageIndices :
        LET vs == pages[i].visible_slides
        IN  /\ \A j \in 1..(Len(vs) - 1) : vs[j + 1] = vs[j] + 1
            /\ \A j \in 1..Len(vs) : 0 <= vs[j] /\ vs[j] <= NumImages - 1
            /\ pages[i].skipped = {}

C4_Witness ==
    \E i \in PageIndices :
        /\ NumImages = 2
        /\ pages[i].center_idx = 0
        /\ Len(SlotsOf(pages[i])) >= 3
        /\ Len(PlacedOn(pages[i])) + Cardinality(pages[i].warnings) = 2

\* the decision table of the selection policy, first matching row
TableRow(c, n, k) ==
    IF c = 0 THEN 1
    ELSE IF c = 1 /\ k >= 2 THEN 2
    ELSE IF 2 <= c /\ c < n - 2 THEN 3
    ELSE IF c = n - 2 /\ k >= 4 THEN 4
    ELSE 5

TableTemplate(c, n, k) ==
    << 0, 1, Min(2, k - 1), Min(3, k - 1), Min(k - 1, 2) >>[TableRow(c, n, k)]

\* the half-open interval [lo, hi) of the table as a set
TableRange(c, n, k) ==
    << 0..(Min(3, n) - 1),
       0..(Min(4, n) - 1),
       Max(0, c - 2)..(Min(c + 3, n) - 1),
       Max(0, c - 2)..(n - 1),
       Max(0, c - 2)..(n - 1) >>[TableRow(c, n, k)]

\* C5: the template index and the visible range of the page for centre c
\* are those of the first matching row of the decision table.
C5_SelectionFollowsTable ==
    \A i \in PageIndices :
        LET c == i - 1
            vs == pages[i].visible_slides
        IN  /\ pages[i].template_idx = TableTemplate(c, NumImages, NumPatterns)
            /\ Members(vs) = TableRange(c, NumImages, NumPatterns)
            /\ Len(vs) = Cardinality(TableRange(c, NumImages, NumPatterns))

C5_Witness ==
    \E i \in PageIndices :
        /\ NumPatterns >= 4
        /\ NumImages >= 4
        /\ pages[i].center_idx = NumImages - 2
        /\ pages[i].template_idx = 3
        /\ Len(pages[i].visible_slides) = 4

\* C6: on a page where no placement failed, the pictures placed are exactly
\* one per i < min(number of slots, number of visible images): picture i
\* shows source image visible_range[i] at the position of slot i, the slots
\* being in left-to-right order.
C6_SlotsPairedWithVisibleImages ==
    \A p \in PageIndices :
        pages[p].warnings = {} =>
            LET slots == SlotsOf(pages[p])
                vs == pages[p].visible_slides
                pics == PlacedOn(pages[p])
                m == Min(Len(slots), Len(vs))
            IN  /\ Len(pics) = m
                /\ \A i \in 1..(Len(slots) - 1) :
                       slots[i].left_inches <= slots[i + 1].left_inches
                /\ \A i \in 1..m :
                       /\ pics[i].image = vs[i] + 1
                       /\ pics[i].image = At0(slide_images, vs[i])
                       /\ pics[i].slot = i - 1
                       /\ pics[i].def_id = slots[i].id
                       /\ pics[i].left_inches = slots[i].left_inches

C6_Witness ==
    \E p \in PageIndices, q \in PageIndices :
        /\ pages[p].warnings = {}
        /\ pages[q].warnings = {}
        /\ Len(SlotsOf(pages[p])) < Len(pages[p].visible_slides)
        /\ Len(PlacedOn(pages[p])) = Len(SlotsOf(pages[p]))
        /\ pages[p].visible_slides[1] > 0
        /\ Len(SlotsOf(pages[q])) > Len(pages[q].visible_slides)
        /\ Len(PlacedOn(pages[q])) = Len(pages[q].visible_slides)

\* C7 as stated: every page's visible range holds at most 5 and at least
\* min(3, N) source indices.
C7_Original ==
    \A i \in PageIndices :
        /\ Len(pages[i].visible_slides) <= 5
        /\ Len(pages[i].visible_slides) >= Min(3, NumImages)

\* C7 amended: every page's visible range holds at least min(3, N) source
\* indices, and at most 5 except on the page c = 1 of a template set with a
\* single pattern, whose visible range is the whole deck 0..N-1.
C7_WindowWidth ==
    \A i \in PageIndices :
        LET vs == pages[i].visible_slides
        IN  /\ Len(vs) >= Min(3, NumImages)
            /\ IF NumPatterns = 1 /\ pages[i].center_idx = 1
               THEN vs = RangeList(0, NumImages)
               ELSE Len(vs) <= 5

C7_Witness ==
    \E i \in PageIndices :
        /\ NumPatterns = 1
        /\ NumImages = 6
        /\ pages[i].center_idx = 1
        /\ Len(pages[i].visible_slides) = 6

\* C8: with an empty template set the build fails before any page exists:
\* the page loop is never entered, no page is created, nothing is saved, the
\* call raises, and main returns 1.
C8_EmptyTemplateSetFails ==
    (NumPatterns = 0 /\ pc \notin {"main_validate", "main_load", "direct_call",
                                   "main_images", "create"}) =>
        /\ pages = << >>
        /\ ~saved
        /\ pc \in {"raised", "exit"}
        /\ (pc = "raised" => raised = "IndexError")
        /\ (pc = "exit" => exit_status = 1)

C8_Witness ==
    /\ via = "main"
    /\ pc = "exit"
    /\ NumPatterns = 0
    /\ NumImages >= 1
    /\ raised = "IndexError"
    /\ exit_status = 1
    /\ pages = << >>

\* some pattern of the loaded template set has no picture slot
HasEmptyPattern ==
    \E k \in 1..NumPatterns : Pictures(template_def.slides[k]) = << >>

\* C9 as stated: when a pattern of a non-empty template set has zero picture
\* slots the build fails without output: no page is emitted and no deck is
\* saved.
C9_Original ==
    (NumPatterns >= 1 /\ HasEmptyPattern) =>
        /\ pages = << >>
        /\ ~saved

\* C10 as stated: with N = 0 and a non-empty template set, the result is an
\* empty page sequence and no error, whether called directly or through main.
C10_Original ==
    (NumImages = 0 /\ NumPatterns >= 1 /\ pc \in {"loop", "returned", "raised", "exit"}) =>
        /\ pages = << >>
        /\ raised = "none"
        /\ (pc = "exit" => exit_status = 0)

\* C10 amended: with N = 0 and a non-empty template set, a direct call of
\* create_carousel_from_template raises nothing and returns with an empty
\* page sequence (an empty deck is saved); run through main, the script
\* reports that no images were found and returns 1 without building.
C10_EmptyImageList ==
    (NumImages = 0 /\ NumPatterns >= 1 /\ pc \in {"create", "loop", "returned", "raised", "exit"}) =>
        /\ pages = << >>
        /\ raised = "none"
        /\ (via = "direct" => pc \in {"create", "loop", "returned"})
        /\ (pc = "returned" => saved)
        /\ (via = "main" => pc = "exit" /\ exit_status = 1 /\ ~saved)

C10_Witness ==
    /\ via = "main"
    /\ pc = "exit"
    /\ NumImages = 0
    /\ NumPatterns >= 1
    /\ exit_status = 1
    /\ ~saved

\* ---------------------------------------------------------------- properties of failing placements
\* the number of slot/image pairs the placement loop of a page goes through
Attempts(page) == Min(Len(SlotsOf(page)), Len(page.visible_slides))

\* C11: an image whose placement fails costs only its own picture: on every
\* page each slot i below min(slots, visible images) whose image is readable
\* holds that image, also behind a failing slot, the warnings are the failing
\* images of the page, and the build still returns with N saved pages.
C11_FailureConfinedToImage ==
    /\ \A p \in PageIndices :
           LET vs == pages[p].visible_slides
               pics == PlacedOn(pages[p])
               tried == 1..Attempts(pages[p])
           IN  /\ {pics[j].slot : j \in 1..Len(pics)} =
                      {i - 1 : i \in {k \in tried : vs[k] + 1 \notin bad_images}}
               /\ \A j \in 1..Len(pics) : pics[j].image = vs[pics[j].slot + 1] + 1
               /\ \A j \in 1..(Len(pics) - 1) : pics[j].slot < pics[j + 1].slot
               /\ pages[p].warnings = {vs[k] + 1 : k \in tried} \cap bad_images
    /\ (NumPatterns >= 1 /\ pc \notin {"faults_call", "create"}) =>
           /\ raised = "none"
           /\ pc \in {"loop", "returned"}
           /\ Len(pages) <= NumImages
           /\ (pc = "returned" => saved /\ Len(pages) = NumImages)

C11_Witness ==
    /\ pc = "returned"
    /\ saved
    /\ NumImages = 3
    /\ Len(pages) = 3
    /\ \E p \in 1..2 :
           LET pics == PlacedOn(pages[p])
           IN  /\ pages[p].warnings # {}
               /\ \E j \in 1..Len(pics) :
                      /\ pics[j].slot >= 1
                      /\ pages[p].visible_slides[pics[j].slot] + 1 \in bad_images

\* the overlay shapes of a page for rectangle i (0 left, 1 right)
OverlaysOf(page, i) ==
    {j \in 1..Len(page.shapes) :
        page.shapes[j].kind = "overlay" /\ page.shapes[j].slot = i}

\* C20: on every page no picture follows an overlay rectangle; when the
\* first template slide has two or more auto-shape rectangles, each of the
\* two overlays is on the page exactly once unless its own add_shape raised
\* (whatever happened to the other overlay or on earlier pages), the left
\* one before the right one; and the build returns with all N pages saved.
C20_OverlaysOnTopOfEveryPage ==
    /\ \A p \in PageIndices :
           LET sh == pages[p].shapes
               c == pages[p].center_idx
           IN  /\ \A i \in 1..Len(sh), j \in 1..Len(sh) :
                      (i < j /\ sh[i].kind = "overlay") => sh[j].kind = "overlay"
               /\ Len(AutoShapes(template_def.slides[1])) >= 2 =>
                      /\ \A i \in {0, 1} :
                             Cardinality(OverlaysOf(pages[p], i)) =
                                 IF << c, i, "add" >> \in bad_overlays THEN 0 ELSE 1
                      /\ \A i \in OverlaysOf(pages[p], 0), j \in OverlaysOf(pages[p], 1) :
                             i < j
    /\ (NumPatterns >= 1 /\ pc = "returned") => saved /\ Len(pages) = NumImages

C20_Witness ==
    /\ pc = "returned"
    /\ NumImages = 3
    /\ Len(pages) = 3
    /\ << 0, 0, "add" >> \in bad_overlays
    /\ OverlaysOf(pages[1], 0) = {}
    /\ OverlaysOf(pages[1], 1) # {}
    /\ PlacedOn(pages[1]) # << >>
    /\ OverlaysOf(pages[2], 0) # {}
    /\ OverlaysOf(pages[3], 1) # {}

\* ---------------------------------------------------------------- properties of the fallback
\* the pattern index a page position uses when all example patterns exist
NormalIndex(c, n) ==
    IF c = 0 THEN 0
    ELSE IF c = 1 THEN 1
    ELSE IF c < n - 2 THEN 2
    ELSE IF c = n - 2 THEN 3
    ELSE 2

\* C13: with fewer than 5 patterns, a page whose position would normally use
\* a pattern index that does not exist uses the last pattern K-1.
C13_MissingPatternFallsBackToLast ==
    (1 <= NumPatterns /\ NumPatterns < 5) =>
        \A p \in PageIndices :
            NormalIndex(pages[p].center_idx, NumImages) >= NumPatterns =>
                pages[p].template_idx = NumPatterns - 1

C13_Witness ==
    \E p \in PageIndices :
        /\ NumPatterns = 2
        /\ NumImages >= 5
        /\ pages[p].center_idx = NumImages - 1
        /\ pages[p].template_idx = 1

\* the selection of a page: template index and visible range [lo, hi)
Selection(page) == << page.template_idx, page.visible_slides >>

\* C14: for N = 5 and K = 5 the pages are, in order, template 0 with range
\* [0,3), template 1 with [0,4), template 2 with [0,5), template 3 with [1,5)
\* and template 2 with [2,5).
C14_FiveImagesFivePatterns ==
    (NumImages = 5 /\ NumPatterns = 5) =>
        /\ \A p \in PageIndices :
               Selection(pages[p]) =
                   << << 0, << 0, 1, 2 >> >>,
                      << 1, << 0, 1, 2, 3 >> >>,
                      << 2, << 0, 1, 2, 3, 4 >> >>,
                      << 3, << 1, 2, 3, 4 >> >>,
                      << 2, << 2, 3, 4 >> >> >>[p]
        /\ (pc = "returned" => Len(pages) = 5)

C14_Witness ==
    /\ pc = "returned"
    /\ NumImages = 5
    /\ NumPatterns = 5
    /\ Len(pages) = 5
    /\ pages[4].template_idx = 3

\* C15: for N = 10 and K = 2 the page for c = 0 uses template 0 and each of
\* the pages c = 1..9 uses template 1.
C15_TenImagesTwoPatterns ==
    (NumImages = 10 /\ NumPatterns = 2) =>
        /\ \A p \in PageIndices :
               pages[p].template_idx = IF pages[p].center_idx = 0 THEN 0 ELSE 1
        /\ (pc = "returned" => Len(pages) = 10)

C15_Witness ==
    /\ pc = "returned"
    /\ NumImages = 10
    /\ NumPatterns = 2
    /\ Len(pages) = 10
    /\ pages[5].template_idx = 1
    /\ pages[10].template_idx = 1

\* ---------------------------------------------------------------- properties of the end-to-end script
\* C16 as stated: a run that reports success has built a carousel with
\* exactly one page per slide of that run's input presentation.
C16_Original ==
    e_status = 0 => e_output = e_slides

StepNames == [i \in 1..Len(e_steps) |-> e_steps[i].step]

Covers(part, i, total) ==
    CASE part.form = "dash" -> part.a <= i /\ i <= part.b
      [] part.form = "dots" -> part.a <= i /\ i <= part.b
      [] part.form = "from" -> part.a <= i /\ i <= total
      [] part.form = "upto" -> 1 <= i /\ i <= part.b
      [] part.form = "single" -> i = part.a

\* C18: parse_slide_range returns (without raising), in strictly increasing
\* order, exactly the slide numbers of 1..total_slides covered by at least
\* one part of the range string; the empty string yields all of them.
C18_RangeParsedAsWritten ==
    psr_pc \notin {"idle", "call"} =>
        /\ psr_pc = "done"
        /\ \A i \in 1..(Len(valid_indices) - 1) :
               valid_indices[i] < valid_indices[i + 1]
        /\ Members(valid_indices) =
               IF range_parts = << >> THEN 1..total_slides
               ELSE {i \in 1..total_slides :
                        \E k \in 1..Len(range_parts) :
                            Covers(range_parts[k], i, total_slides)}

C18_Witness ==
    /\ psr_pc = "done"
    /\ total_slides = 3
    /\ range_parts = << Part("upto", 0, 2), Part("dash", 2, 12) >>
    /\ range_str = << ".", ".", "2", ",", "2", "-", "1", "2" >>
    /\ valid_indices = << 1, 2, 3 >>

\* ---------------------------------------------------------------- properties of add_morph_transitions
\* the transitions a slide of the output carries
TransitionsOf(children) ==
    {k \in 1..Len(children) : children[k] \in TransitionKinds}

\* C19: after add_morph_transitions completes, every slide of the output
\* carries exactly one transition, and it is the newly built Morph
\* transition.
C19_Original ==
    m_pc = "done" =>
        \A n \in 1..Len(m_output) :
            /\ Cardinality(TransitionsOf(m_output[n])) = 1
            /\ \A k \in TransitionsOf(m_output[n]) : m_output[n][k] = "alt_morph"

\* ---------------------------------------------------------------- properties of the overlay rectangles
\* the auto-shape rectangles of the first template slide
FirstRectangles == AutoShapes(FirstSlideShapes(template_def))

LeftPositions(shapes) == {shapes[i].left_inches : i \in 1..Len(shapes)}

Leftmost(shapes) ==
    CHOOSE l \in LeftPositions(shapes) : \A m \in LeftPositions(shapes) : l <= m

Rightmost(shapes) ==
    CHOOSE l \in LeftPositions(shapes) : \A m \in LeftPositions(shapes) : l >= m

\* C21 as stated: when the first template slide has two or more auto-shape
\* rectangles, every page has its left overlay at the leftmost of those
\* rectangles and its right overlay at the rightmost of them.
C21_Original ==
    Len(FirstRectangles) >= 2 =>
        \A p \in PageIndices :
            /\ OverlaysOf(pages[p], 0) # {}
            /\ OverlaysOf(pages[p], 1) # {}
            /\ \A j \in OverlaysOf(pages[p], 0) :
                   pages[p].shapes[j].left_inches = Leftmost(FirstRectangles)
            /\ \A j \in OverlaysOf(pages[p], 1) :
                   pages[p].shapes[j].left_inches = Rightmost(FirstRectangles)

\* ---------------------------------------------------------------- properties of the template analysis
\* the positions of the shapes of a slide that are flagged is_picture
PicturePositions(shapes) == {i \in 1..Len(shapes) : shapes[i].is_picture}

\* the position in its slide of the shape at place i of a pattern
PositionIn(shapes, shape) == CHOOSE i \in 1..Len(shapes) : shapes[i] = shape

\* C22: analyze_all_template_slides returns one pattern per reference slide,
\* in slide order; pattern k holds exactly the shapes of slide k flagged
\* is_picture, each once (none for a slide without pictures), in
\* non-decreasing left position, shapes of equal left position in their
\* original relative order.
C22_OneSortedPatternPerSlide ==
    (\/ pc \in {"loop", "returned", "raised"}
     \/ pc = "exit" /\ (saved \/ raised # "none")) =>
        /\ Len(template_patterns) = Len(template_def.slides)
        /\ \A k \in 1..Len(template_patterns) :
               LET slide == template_def.slides[k]
                   pattern == template_patterns[k]
               IN  /\ Len(pattern) = Cardinality(PicturePositions(slide))
                   /\ {PositionIn(slide, pattern[i]) : i \in 1..Len(pattern)} =
                          PicturePositions(slide)
                   /\ \A i \in 1..Len(pattern) : pattern[i] \in Members(slide)
                   /\ \A i \in 1..(Len(pattern) - 1) :
                          /\ pattern[i].left_inches <= pattern[i + 1].left_inches
                          /\ pattern[i].left_inches = pattern[i + 1].left_inches =>
                                 PositionIn(slide, pattern[i]) <
                                     PositionIn(slide, pattern[i + 1])

C22_Witness ==
    /\ pc = "loop"
    /\ Len(template_patterns) = 3
    /\ template_def.slides = << SlideNone, SlideThree, SlideFive >>
    /\ template_patterns[1] = << >>
    /\ template_patterns[2] = << SlideThree[3], SlideThree[1], SlideThree[5] >>
    /\ Len(template_patterns[3]) = 5

\* ---------------------------------------------------------------- properties of the centred image
\* the pictures of a page that show source image c (0-based)
PicturesOf(page, c) ==
    {j \in 1..Len(PlacedOn(page)) : PlacedOn(page)[j].image = At0(slide_images, c)}

\* C23: on every page the centred image c is at position min(c, 2) of the
\* visible range; when the chosen pattern has at least min(c, 2) + 1 slots
\* the image is placed exactly once, in slot min(c, 2) (a warning instead
\* when its file cannot be placed); otherwise it is not on its own page.
C23_CentreAtPositionMinTwo ==
    \A p \in PageIndices :
        LET c == pages[p].center_idx
            position == Min(c, 2)
            vs == pages[p].visible_slides
            pics == PlacedOn(pages[p])
        IN  /\ Len(vs) >= position + 1
            /\ At0(vs, position) = c
            /\ IF Len(SlotsOf(pages[p])) >= position + 1
               THEN IF At0(slide_images, c) \in bad_images
                    THEN /\ PicturesOf(pages[p], c) = {}
                         /\ At0(slide_images, c) \in pages[p].warnings
                    ELSE /\ Cardinality(PicturesOf(pages[p], c)) = 1
                         /\ \A j \in PicturesOf(pages[p], c) : pics[j].slot = position
               ELSE PicturesOf(pages[p], c) = {}

C23_Witness ==
    \E p \in PageIndices, q \in PageIndices :
        /\ pages[p].center_idx = NumImages - 1
        /\ pages[p].center_idx >= 3
        /\ \E j \in PicturesOf(pages[p], pages[p].center_idx) :
               PlacedOn(pages[p])[j].slot = 2
        /\ pages[q].center_idx = 1
        /\ SlotsOf(pages[q]) = << >>
        /\ PicturesOf(pages[q], 1) = {}

\* ---------------------------------------------------------------- properties of the pattern indices used
\* the pages of the deck that use pattern 3
PagesUsingThree == {p \in PageIndices : pages[p].template_idx = 3}

\* C24: no page uses a template index greater than 3; template index 3 is
\* used by at most one page of the deck, the page c == N-2, and only when
\* N >= 4 and K >= 4.
C24_PatternThreeOnlySecondToLast ==
    /\ \A p \in PageIndices : pages[p].template_idx <= 3
    /\ Cardinality(PagesUsingThree) <= 1
    /\ \A p \in PagesUsingThree :
           /\ pages[p].center_idx = NumImages - 2
           /\ NumImages >= 4
           /\ NumPatterns >= 4

C24_Witness ==
    /\ pc = "returned"
    /\ NumPatterns = 5
    /\ NumImages = 7
    /\ Len(pages) = 7
    /\ PagesUsingThree = {6}
    /\ pages[7].template_idx = 2

\* ---------------------------------------------------------------- properties of build_carousel.py
\* ceil(n / s) for s >= 1
CeilDiv(n, s) == CHOOSE k \in 0..n : k * s >= n /\ (k = 0 \/ (k - 1) * s < n)

\* C25: create_carousel_presentation produces ceil(N / s) pages; page p
\* (0-based) takes the images with indices p*s .. min((p+1)*s, N) - 1 in
\* order, between 1 and s of them, and shows each of them that can be placed
\* as a thumbnail (a warning for the others); every image is taken by
\* exactly one page; the label of a thumbnail is the 1-based index of its
\* image in the image list.
C25_PagesPartitionImages ==
    LET N == Len(g_images)
        s == g_per_page
    IN  /\ g_pc = "loop" => Len(g_pages) = g_page_num /\ g_page_num <= CeilDiv(N, s)
        /\ g_pc = "returned" => g_saved /\ Len(g_pages) = CeilDiv(N, s)
        /\ \A q \in 1..Len(g_pages) :
               LET p == q - 1
                   page == g_pages[q]
                   taken == page.page_slide_images
               IN  /\ page.page_num = p
                   /\ taken = [i \in 1..(Min((p + 1) * s, N) - p * s) |->
                                  At0(g_images, p * s + i - 1)]
                   /\ 1 <= Len(taken) /\ Len(taken) <= s
                   /\ {t.image : t \in Members(page.thumbnails)} =
                          Members(taken) \ g_bad
                   /\ \A i \in 1..(Len(page.thumbnails) - 1) :
                          page.thumbnails[i].idx < page.thumbnails[i + 1].idx
                   /\ \A t \in Members(page.thumbnails) :
                          /\ t.image = At0(taken, t.idx)
                          /\ 1 <= t.label /\ t.label <= N
                          /\ g_images[t.label] = t.image
                   /\ page.warnings = Members(taken) \cap g_bad
        /\ g_pc = "returned" =>
               \A i \in 1..N :
                   Cardinality({q \in 1..Len(g_pages) :
                       g_images[i] \in Members(g_pages[q].page_slide_images)}) = 1

C25_Witness ==
    /\ g_pc = "returned"
    /\ Len(g_images) = 5
    /\ g_per_page = 2
    /\ g_bad = {3}
    /\ Len(g_pages) = 3
    /\ Len(g_pages[2].thumbnails) = 1
    /\ g_pages[2].thumbnails[1].label = 4
    /\ Len(g_pages[3].thumbnails) = 1
    /\ g_pages[3].thumbnails[1].label = 5

\* the grid the claim names for a page of n images
TableGrid(n) ==
    IF n <= 2 THEN << n, 1 >>
    ELSE IF n <= 4 THEN << 2, 2 >>
    ELSE IF n <= 6 THEN << 3, 2 >>
    ELSE << 3, 3 >>

\* C26 as stated: on every page the grid is the one chosen from the page's
\* image count, every thumbnail's cell has row < rows and col < cols, and no
\* two thumbnails of a page share a cell.
C26_Original ==
    \A q \in 1..Len(g_pages) :
        LET page == g_pages[q]
        IN  /\ << page.cols, page.rows >> = TableGrid(Len(page.page_slide_images))
            /\ \A t \in Members(page.thumbnails) :
                   /\ 0 <= t.row /\ t.row < page.rows
                   /\ 0 <= t.col /\ t.col < page.cols
            /\ \A i \in 1..Len(page.thumbnails), j \in 1..Len(page.thumbnails) :
                   (i # j) =>
                       << page.thumbnails[i].row, page.thumbnails[i].col >> #
                           << page.thumbnails[j].row, page.thumbnails[j].col >>

\* ---------------------------------------------------------------- properties of extract_presentation_definition
\* the slide numbers of the definition, in order
DefinitionIndices == [i \in 1..Len(x_slides) |-> x_slides[i].index]

\* C27 as stated: without a slide range and with max_slides = m >= 0 the
\* definition contains exactly the first min(m, T) slides in order, so no
\* more than m slides; a slide range that is given decides the slides
\* whatever max_slides is.
C27_Original ==
    x_pc = "returned" =>
        /\ (~TruthyStr(x_range) /\ x_max.given) =>
               /\ DefinitionIndices = RangeList(1, Min(x_max.value, x_total) + 1)
               /\ Len(x_slides) <= x_max.value
        /\ TruthyStr(x_range) =>
               DefinitionIndices = parse_slide_range(x_range.value, x_total).value

====
